---- MODULE Spec2Model ----
(***************************************************************************)
(* Flow controller (packages/server/api/src/app/flows/flow/                *)
(* flow.controller.ts) and colour picker (packages/react-ui/src/           *)
(* components/ui/color-picker.tsx).                                        *)
(*                                                                         *)
(* The controller part models the POST /:id and DELETE /:id handlers as    *)
(* sequences of steps separated by the handlers' awaits, run by request    *)
(* slots that interleave at those awaits, over one stored flow and a       *)
(* wall clock.  The picker part models the component's three useState      *)
(* cells and its event handlers.                                           *)
(*                                                                         *)
(* POST / and the GET handlers neither read nor write an existing flow's   *)
(* version and are left out.  The route options' config.permission is      *)
(* consumed by middleware outside these files and is left out as well.     *)
(* projectMemberService, projectService, flowService and                   *)
(* assertRoleHasPermission are collaborators whose code is elsewhere; they *)
(* are modelled from their described contracts.                            *)
(***************************************************************************)
EXTENDS Integers, Sequences, FiniteSets, TLC

VARIABLES
    now,          \* wall clock read by dayjs(), in seconds
    storedFlow,   \* the flow held by flowService
    memberRole,   \* projectMemberService: user id -> role
    serviceRole,  \* the role the permission utility resolves for a SERVICE principal
    opTypes,      \* the members of FlowOperationType a request body may carry
    slots,        \* the request slots the server may run concurrently
    instants,     \* the instants at which the clock is read
    req,          \* per slot: the handler's position and locals
    color,        \* ColorPicker: useState color
    savedColor,   \* ColorPicker: useState savedColor
    open,         \* ColorPicker: useState open
    onSave,       \* ColorPicker: whether the onSave prop is supplied
    onSaveCalls,  \* ColorPicker: arguments of the onSave calls made so far
    uiEvent       \* ColorPicker: the last event handled

ctlVars == <<now, storedFlow, memberRole, serviceRole, opTypes, slots, instants, req>>
uiVars == <<color, savedColor, open, onSave, onSaveCalls, uiEvent>>
vars == <<now, storedFlow, memberRole, serviceRole, opTypes, slots, instants, req,
          color, savedColor, open, onSave, onSaveCalls, uiEvent>>

Nil == "nil"

(***************************************************************************)
(* Bounds                                                                  *)
(***************************************************************************)
\* last instant of the clock, in seconds
MaxTime == 121
\* most onSave calls recorded
MaxSaves == 2

(***************************************************************************)
(* Time                                                                    *)
(***************************************************************************)
SecondsPerMinute == 60

\* The instants the clock takes: around every whole minute boundary, so that
\* elapsed times of 0, 1, 59, 60, 61, 119, 120 and 121 seconds all occur.
Instants == {t \in 0..MaxTime : t % SecondsPerMinute \in {0, 1}}

\* The whole minutes only
WholeMinutes == {t \in 0..MaxTime : t % SecondsPerMinute = 0}

\* dayjs absFloor: truncation towards zero
AbsFloorDiv(n, d) == IF n < 0 THEN -((-n) \div d) ELSE n \div d

\* currentTime.diff(dayjs(flow.version.updated), 'minute'): dayjs returns
\* whole minutes, truncated (float = false)
DiffMinutes(a, b) == AbsFloorDiv(a - b, SecondsPerMinute)

(***************************************************************************)
(* Principals, operation kinds, permissions                                *)
(***************************************************************************)
ProjectId == "p1"
ProjectOwner == "u1"
Users == {"u1", "u2"}
SlotIds == {"r1", "r2"}

UserPrincipal(u) == [type |-> "USER", id |-> u, projectId |-> ProjectId]
ServicePrincipal == [type |-> "SERVICE", id |-> "s1", projectId |-> ProjectId]
Principals == {UserPrincipal(u) : u \in Users} \cup {ServicePrincipal}

StatusKinds == {"LOCK_AND_PUBLISH", "CHANGE_STATUS"}
WriteKinds == {"ADD_ACTION", "UPDATE_ACTION", "DELETE_ACTION", "LOCK_FLOW",
               "CHANGE_FOLDER", "CHANGE_NAME", "MOVE_ACTION", "IMPORT_FLOW",
               "UPDATE_TRIGGER", "DUPLICATE_ACTION", "USE_AS_DRAFT"}
\* the kinds the switch of assertUserHasPermissionToFlow names
TableKinds == StatusKinds \cup WriteKinds
\* a member of FlowOperationType that the switch does not name
UnlistedKind == "UNLISTED_OPERATION"
\* one kind of each permission class
RaceKinds == {"CHANGE_STATUS", "CHANGE_NAME"}

Roles == {"ADMIN", "EDITOR", "OPERATOR", "VIEWER"}

\* role -> set of permissions
RolePermissions(role) ==
    CASE role = "ADMIN" -> {"WRITE_FLOW", "UPDATE_FLOW_STATUS"}
      [] role = "EDITOR" -> {"WRITE_FLOW"}
      [] role = "OPERATOR" -> {"UPDATE_FLOW_STATUS"}
      [] OTHER -> {}

\* projectService.getOneOrThrow(projectId).ownerId
ProjectOwnerId(projectId) == ProjectOwner

\* projectMemberService.getRole({ projectId, userId })
GetRole(projectId, userId) == memberRole[userId]

\* assertRoleHasPermission(principal, permission): TRUE when it returns,
\* FALSE when it throws.  It is handed the principal, so the role it checks
\* is the principal's own.
RoleHasPermission(principal, permission) ==
    LET role == IF principal.type = "USER"
                THEN GetRole(principal.projectId, principal.id)
                ELSE serviceRole
    IN permission \in RolePermissions(role)

\* extractUserIdFromPrincipal
ExtractUserIdFromPrincipal(principal) ==
    IF principal.type = "USER"
    THEN principal.id
    ELSE ProjectOwnerId(principal.projectId)

\* mutant: CHANGE_STATUS filed under the WRITE_FLOW cases
PermissionsAssertedStatusAsWrite(operationType) ==
    IF operationType \in {"LOCK_AND_PUBLISH"}
    THEN <<"UPDATE_FLOW_STATUS">>
    ELSE IF operationType \in TableKinds
    THEN <<"WRITE_FLOW">>
    ELSE <<>>

\* the switch of assertUserHasPermissionToFlow: the permissions it asserts,
\* in order, for an operation kind
PermissionsAsserted(operationType) ==
    IF operationType \in {"LOCK_AND_PUBLISH", "CHANGE_STATUS"}
    THEN <<"UPDATE_FLOW_STATUS">>
    ELSE IF operationType \in {"ADD_ACTION", "UPDATE_ACTION", "DELETE_ACTION",
                               "LOCK_FLOW", "CHANGE_FOLDER", "CHANGE_NAME",
                               "MOVE_ACTION", "IMPORT_FLOW", "UPDATE_TRIGGER",
                               "DUPLICATE_ACTION", "USE_AS_DRAFT"}
    THEN <<"WRITE_FLOW">>
    ELSE <<>>

\* assertUserHasPermissionToFlow returns (TRUE) or throws (FALSE).  The role
\* it looks up for userId is not passed on to the assertions.
UserHasPermissionToFlow(principal, userId, operationType) ==
    \A i \in 1..Len(PermissionsAsserted(operationType)) :
        RoleHasPermission(principal, PermissionsAsserted(operationType)[i])

\* mutant: the comparison with the acting user left out
FlowIsBeingUsedByAnyone(flow, userId, currentTime) ==
    /\ flow.updatedBy # Nil
    /\ DiffMinutes(currentTime, flow.updated) <= 1

\* the condition under which assertThatFlowIsNotBeingUsed throws FLOW_IN_USE
FlowIsBeingUsed(flow, userId, currentTime) ==
    /\ flow.updatedBy # Nil
    /\ flow.updatedBy # userId
    /\ DiffMinutes(currentTime, flow.updated) <= 1

(***************************************************************************)
(* State                                                                   *)
(***************************************************************************)
NoFlow == [exists |-> FALSE, updatedBy |-> Nil, updated |-> 0]
NoEvent == [action |-> Nil, userId |-> Nil]
NoPrincipal == [type |-> Nil, id |-> Nil, projectId |-> Nil]

IdleReq ==
    [route |-> Nil, pc |-> "idle", principal |-> NoPrincipal, opType |-> Nil,
     userId |-> Nil, role |-> Nil, asserted |-> <<>>, flow |-> NoFlow,
     currentTime |-> 0, event |-> NoEvent, updateUserId |-> Nil,
     updatedFlow |-> NoFlow, status |-> Nil, trace |-> <<>>]

Colors == {"#FFFFFF", "#000000", "#FF0000", "#12"}

\* useState(defaultValue || '#FFFFFF'): undefined and '' are falsy
InitialColor(defaultValue) ==
    IF defaultValue \in {Nil, ""} THEN "#FFFFFF" ELSE defaultValue

InitPicker ==
    /\ \E defaultValue \in Colors \cup {Nil, ""} :
          /\ color = InitialColor(defaultValue)
          /\ savedColor = InitialColor(defaultValue)
    /\ open = FALSE
    /\ onSave \in BOOLEAN
    /\ onSaveCalls = <<>>
    /\ uiEvent = "none"

\* the picker as mounted with no defaultValue and an onSave prop
InitPickerMounted ==
    /\ color = InitialColor(Nil)
    /\ savedColor = InitialColor(Nil)
    /\ open = FALSE
    /\ onSave = TRUE
    /\ onSaveCalls = <<>>
    /\ uiEvent = "none"

InitController(kinds, slotSet, memberRoles, serviceRoles, clock) ==
    /\ now = 0
    /\ \E by \in Users \cup {Nil} :
          storedFlow = [exists |-> TRUE, updatedBy |-> by, updated |-> 0]
    /\ \E role \in memberRoles :
          memberRole = [u \in Users |-> IF u = ProjectOwner THEN "ADMIN" ELSE role]
    /\ serviceRole \in serviceRoles
    /\ opTypes = kinds
    /\ slots = slotSet
    /\ instants = clock
    /\ req = [r \in SlotIds |-> IdleReq]

\* the server at rest, for the runs of the picker alone
InitControllerIdle ==
    /\ now = 0
    /\ storedFlow = [exists |-> TRUE, updatedBy |-> Nil, updated |-> 0]
    /\ memberRole = [u \in Users |-> "ADMIN"]
    /\ serviceRole = "ADMIN"
    /\ opTypes = {}
    /\ slots = {}
    /\ instants = {}
    /\ req = [r \in SlotIds |-> IdleReq]

(***************************************************************************)
(* Steps shared by the handlers                                            *)
(***************************************************************************)
\* the handler in slot r moves on with the given locals changed
Step(r, name, next) ==
    req' = [req EXCEPT ![r] = [next EXCEPT !.trace = Append(req[r].trace, name)]]

\* the handler throws, or returns: the request ends with a status
Finish(rec, status) == [rec EXCEPT !.pc = "done", !.status = status]

CtlFrame == UNCHANGED <<now, memberRole, serviceRole, opTypes, slots, instants>>

(***************************************************************************)
(* POST /:id                                                               *)
(***************************************************************************)
ReceiveUpdate(r) ==
    /\ r \in slots
    /\ req[r].pc = "idle"
    /\ \E principal \in Principals, operationType \in opTypes :
          req' = [req EXCEPT ![r] = [IdleReq EXCEPT !.route = "UPDATE",
                                                   !.pc = "extractUserId",
                                                   !.principal = principal,
                                                   !.opType = operationType]]
    /\ UNCHANGED storedFlow
    /\ CtlFrame
    /\ UNCHANGED uiVars

\* line 55
UpdateExtractUserId(r) ==
    /\ req[r].route = "UPDATE"
    /\ req[r].pc = "extractUserId"
    /\ Step(r, "extractUserIdFromPrincipal",
            [req[r] EXCEPT !.userId = ExtractUserIdFromPrincipal(req[r].principal),
                           !.pc = "authorize"])
    /\ UNCHANGED storedFlow
    /\ CtlFrame
    /\ UNCHANGED uiVars

\* line 56
UpdateAuthorize(r) ==
    /\ req[r].route = "UPDATE"
    /\ req[r].pc = "authorize"
    /\ LET cur == req[r]
           looked == [cur EXCEPT
                        !.role = GetRole(cur.principal.projectId, cur.userId),
                        !.asserted = PermissionsAsserted(cur.opType)]
       IN Step(r, "assertUserHasPermissionToFlow",
               IF UserHasPermissionToFlow(cur.principal, cur.userId, cur.opType)
               THEN [looked EXCEPT !.pc = "load"]
               ELSE Finish(looked, "AUTHORIZATION"))
    /\ UNCHANGED storedFlow
    /\ CtlFrame
    /\ UNCHANGED uiVars

\* lines 58-61
UpdateLoadFlow(r) ==
    /\ req[r].route = "UPDATE"
    /\ req[r].pc = "load"
    /\ Step(r, "getOnePopulatedOrThrow",
            IF storedFlow.exists
            THEN [req[r] EXCEPT !.flow = storedFlow, !.pc = "guard"]
            ELSE Finish(req[r], "ENTITY_NOT_FOUND"))
    /\ UNCHANGED storedFlow
    /\ CtlFrame
    /\ UNCHANGED uiVars

\* mutant: the event is sent before the guard is evaluated
UpdateGuardAfterSend(r) ==
    /\ req[r].route = "UPDATE"
    /\ req[r].pc = "guard"
    /\ LET timed == [req[r] EXCEPT !.currentTime = now,
                                   !.event = [action |-> "UPDATED_FLOW",
                                              userId |-> req[r].principal.id]]
       IN Step(r, "assertThatFlowIsNotBeingUsed",
               IF FlowIsBeingUsed(req[r].flow, req[r].userId, now)
               THEN Finish(timed, "FLOW_IN_USE")
               ELSE [timed EXCEPT !.pc = "send"])
    /\ UNCHANGED storedFlow
    /\ CtlFrame
    /\ UNCHANGED uiVars

\* line 62
UpdateGuard(r) ==
    /\ req[r].route = "UPDATE"
    /\ req[r].pc = "guard"
    /\ LET timed == [req[r] EXCEPT !.currentTime = now]
       IN Step(r, "assertThatFlowIsNotBeingUsed",
               IF FlowIsBeingUsed(req[r].flow, req[r].userId, now)
               THEN Finish(timed, "FLOW_IN_USE")
               ELSE [timed EXCEPT !.pc = "send"])
    /\ UNCHANGED storedFlow
    /\ CtlFrame
    /\ UNCHANGED uiVars

\* mutant: the event carries the resolved user id
UpdatedEventResolvedUserId(rec) == rec.userId

\* the userId field of the UPDATED_FLOW event, line 67
UpdatedEventUserId(rec) == rec.principal.id

\* lines 63-68
UpdateSendEvent(r) ==
    /\ req[r].route = "UPDATE"
    /\ req[r].pc = "send"
    /\ Step(r, "send",
            [req[r] EXCEPT !.event = [action |-> "UPDATED_FLOW",
                                      userId |-> UpdatedEventUserId(req[r])],
                           !.pc = "update"])
    /\ UNCHANGED storedFlow
    /\ CtlFrame
    /\ UNCHANGED uiVars

\* the userId argument of flowService.update, line 72
UpdateUserIdArg(rec) ==
    IF rec.principal.type = "SERVICE" THEN Nil ELSE rec.userId

\* flowService.update: the flows it may leave stored.  A version written
\* with a null user id either keeps its updatedBy or has it cleared.
FlowServiceUpdate(flow, userId, time) ==
    {[exists |-> TRUE, updatedBy |-> by, updated |-> time] :
        by \in IF userId # Nil THEN {userId} ELSE {Nil, flow.updatedBy}}

\* mutant: the write re-checks the guard against the stored version
UpdateApplyChecked(r) ==
    /\ req[r].route = "UPDATE"
    /\ req[r].pc = "update"
    /\ LET called == [req[r] EXCEPT !.updateUserId = UpdateUserIdArg(req[r])]
       IN IF storedFlow.exists /\ ~FlowIsBeingUsed(storedFlow, req[r].userId, now)
          THEN /\ storedFlow' \in FlowServiceUpdate(storedFlow, called.updateUserId, now)
               /\ Step(r, "update",
                       Finish([called EXCEPT !.updatedFlow = storedFlow'], "OK"))
          ELSE /\ UNCHANGED storedFlow
               /\ Step(r, "update",
                       Finish(called, IF storedFlow.exists
                                      THEN "FLOW_IN_USE"
                                      ELSE "ENTITY_NOT_FOUND"))
    /\ CtlFrame
    /\ UNCHANGED uiVars

\* lines 70-76
UpdateApply(r) ==
    /\ req[r].route = "UPDATE"
    /\ req[r].pc = "update"
    /\ LET called == [req[r] EXCEPT !.updateUserId = UpdateUserIdArg(req[r])]
       IN IF storedFlow.exists
          THEN /\ storedFlow' \in FlowServiceUpdate(storedFlow, called.updateUserId, now)
               /\ Step(r, "update",
                       Finish([called EXCEPT !.updatedFlow = storedFlow'], "OK"))
          ELSE /\ UNCHANGED storedFlow
               /\ Step(r, "update", Finish(called, "ENTITY_NOT_FOUND"))
    /\ CtlFrame
    /\ UNCHANGED uiVars

(***************************************************************************)
(* DELETE /:id                                                             *)
(***************************************************************************)
ReceiveDelete(r) ==
    /\ r \in slots
    /\ req[r].pc = "idle"
    /\ \E principal \in Principals :
          req' = [req EXCEPT ![r] = [IdleReq EXCEPT !.route = "DELETE",
                                                   !.pc = "load",
                                                   !.principal = principal]]
    /\ UNCHANGED storedFlow
    /\ CtlFrame
    /\ UNCHANGED uiVars

\* mutant: the DELETED_FLOW event is sent before the lookup
DeleteLoadFlowAnnounced(r) ==
    /\ req[r].route = "DELETE"
    /\ req[r].pc = "load"
    /\ LET sent == [req[r] EXCEPT !.event = [action |-> "DELETED_FLOW",
                                             userId |-> req[r].principal.id]]
       IN Step(r, "getOnePopulatedOrThrow",
               IF storedFlow.exists
               THEN [sent EXCEPT !.flow = storedFlow, !.pc = "extractUserId"]
               ELSE Finish(sent, "ENTITY_NOT_FOUND"))
    /\ UNCHANGED storedFlow
    /\ CtlFrame
    /\ UNCHANGED uiVars

\* lines 113-116
DeleteLoadFlow(r) ==
    /\ req[r].route = "DELETE"
    /\ req[r].pc = "load"
    /\ Step(r, "getOnePopulatedOrThrow",
            IF storedFlow.exists
            THEN [req[r] EXCEPT !.flow = storedFlow, !.pc = "extractUserId"]
            ELSE Finish(req[r], "ENTITY_NOT_FOUND"))
    /\ UNCHANGED storedFlow
    /\ CtlFrame
    /\ UNCHANGED uiVars

\* line 117
DeleteExtractUserId(r) ==
    /\ req[r].route = "DELETE"
    /\ req[r].pc = "extractUserId"
    /\ Step(r, "extractUserIdFromPrincipal",
            [req[r] EXCEPT !.userId = ExtractUserIdFromPrincipal(req[r].principal),
                           !.pc = "send"])
    /\ UNCHANGED storedFlow
    /\ CtlFrame
    /\ UNCHANGED uiVars

\* lines 118-122
DeleteSendEvent(r) ==
    /\ req[r].route = "DELETE"
    /\ req[r].pc = "send"
    /\ Step(r, "send",
            [req[r] EXCEPT !.event = [action |-> "DELETED_FLOW",
                                      userId |-> req[r].userId],
                           !.pc = "delete"])
    /\ UNCHANGED storedFlow
    /\ CtlFrame
    /\ UNCHANGED uiVars

\* lines 123-126; when the flow is already gone flowService.delete either
\* throws or deletes nothing
DeleteApply(r) ==
    /\ req[r].route = "DELETE"
    /\ req[r].pc = "delete"
    /\ IF storedFlow.exists
       THEN /\ storedFlow' = NoFlow
            /\ Step(r, "delete", [req[r] EXCEPT !.pc = "reply"])
       ELSE /\ UNCHANGED storedFlow
            /\ \E throws \in BOOLEAN :
                  Step(r, "delete",
                       IF throws
                       THEN Finish(req[r], "ENTITY_NOT_FOUND")
                       ELSE [req[r] EXCEPT !.pc = "reply"])
    /\ CtlFrame
    /\ UNCHANGED uiVars

\* line 127
DeleteReply(r) ==
    /\ req[r].route = "DELETE"
    /\ req[r].pc = "reply"
    /\ Step(r, "reply", Finish(req[r], "NO_CONTENT"))
    /\ UNCHANGED storedFlow
    /\ CtlFrame
    /\ UNCHANGED uiVars

(***************************************************************************)
(* Environment                                                             *)
(***************************************************************************)
\* the response has gone out; the slot takes the next request
Respond(r) ==
    /\ req[r].pc = "done"
    /\ req' = [req EXCEPT ![r] = IdleReq]
    /\ UNCHANGED storedFlow
    /\ CtlFrame
    /\ UNCHANGED uiVars

\* the wall clock advances
Tick ==
    /\ \E t \in instants : t > now /\ now' = t
    /\ UNCHANGED <<storedFlow, memberRole, serviceRole, opTypes, slots, instants, req>>
    /\ UNCHANGED uiVars

NextController ==
    \/ \E r \in SlotIds : ReceiveUpdate(r)
    \/ \E r \in SlotIds : UpdateExtractUserId(r)
    \/ \E r \in SlotIds : UpdateAuthorize(r)
    \/ \E r \in SlotIds : UpdateLoadFlow(r)
    \/ \E r \in SlotIds : UpdateGuard(r)
    \/ \E r \in SlotIds : UpdateSendEvent(r)
    \/ \E r \in SlotIds : UpdateApply(r)
    \/ \E r \in SlotIds : ReceiveDelete(r)
    \/ \E r \in SlotIds : DeleteLoadFlow(r)
    \/ \E r \in SlotIds : DeleteExtractUserId(r)
    \/ \E r \in SlotIds : DeleteSendEvent(r)
    \/ \E r \in SlotIds : DeleteApply(r)
    \/ \E r \in SlotIds : DeleteReply(r)
    \/ \E r \in SlotIds : Respond(r)
    \/ Tick

\* one request at a time, every operation kind the switch names
Init ==
    /\ InitController(TableKinds, {"r1"}, Roles, {"ADMIN", "VIEWER"}, Instants)
    /\ InitPickerMounted
Spec == Init /\ [][NextController]_vars

\* one request at a time, with an operation kind the switch does not name
InitOpen ==
    /\ InitController(TableKinds \cup {UnlistedKind}, {"r1"}, Roles, {"ADMIN", "VIEWER"}, Instants)
    /\ InitPickerMounted
SpecOpen == InitOpen /\ [][NextController]_vars

\* two requests interleaving at the handlers' awaits
InitRace ==
    /\ InitController(RaceKinds, SlotIds, {"EDITOR"}, {"ADMIN"}, WholeMinutes)
    /\ InitPickerMounted
SpecRace == InitRace /\ [][NextController]_vars

(***************************************************************************)
(* ColorPicker                                                             *)
(***************************************************************************)
\* what the text input may hold: at most 7 characters, not validated
TextValues == Colors \cup {""}

\* onSave?.(color): the calls recorded after it
CallOnSave(calls, value) == IF onSave THEN Append(calls, value) ELSE calls

\* line 42-44: the trigger is clicked
OpenPopover ==
    /\ open' = TRUE
    /\ uiEvent' = "open"
    /\ UNCHANGED <<color, savedColor, onSave, onSaveCalls>>
    /\ UNCHANGED ctlVars

\* mutant: picking writes the saved colour as well
PickColorSaving(c) ==
    /\ open
    /\ color' = c
    /\ savedColor' = c
    /\ uiEvent' = "pick"
    /\ UNCHANGED <<open, onSave, onSaveCalls>>
    /\ UNCHANGED ctlVars

\* line 49: HexColorPicker onChange={setColor}
PickColor(c) ==
    /\ open
    /\ color' = c
    /\ uiEvent' = "pick"
    /\ UNCHANGED <<savedColor, open, onSave, onSaveCalls>>
    /\ UNCHANGED ctlVars

\* lines 53-55: Input onChange
EditHexText(text) ==
    /\ open
    /\ color' = text
    /\ uiEvent' = "edit"
    /\ UNCHANGED <<savedColor, open, onSave, onSaveCalls>>
    /\ UNCHANGED ctlVars

\* line 40: Popover onOpenChange={setOpen}, on a click elsewhere or Escape
Dismiss ==
    /\ open
    /\ open' = FALSE
    /\ uiEvent' = "dismiss"
    /\ UNCHANGED <<color, savedColor, onSave, onSaveCalls>>
    /\ UNCHANGED ctlVars

\* lines 64-68: the confirm button's onClick
Confirm ==
    /\ open
    /\ Len(onSaveCalls) < MaxSaves
    /\ onSaveCalls' = CallOnSave(onSaveCalls, color)
    /\ savedColor' = color
    /\ open' = FALSE
    /\ uiEvent' = "confirm"
    /\ UNCHANGED <<color, onSave>>
    /\ UNCHANGED ctlVars

NextPicker ==
    \/ OpenPopover
    \/ \E c \in Colors : PickColor(c)
    \/ \E text \in TextValues : EditHexText(text)
    \/ Dismiss
    \/ Confirm

\* the picker alone
InitAlone == InitControllerIdle /\ InitPicker
SpecPicker == InitAlone /\ [][NextPicker]_vars

(***************************************************************************)
(* Properties                                                              *)
(***************************************************************************)
\* the steps of POST /:id and of DELETE /:id, in the order claimed
UpdateOrder ==
    <<"extractUserIdFromPrincipal", "assertUserHasPermissionToFlow",
      "getOnePopulatedOrThrow", "assertThatFlowIsNotBeingUsed", "send", "update">>
DeleteOrder ==
    <<"getOnePopulatedOrThrow", "extractUserIdFromPrincipal", "send", "delete",
      "reply">>

IsPrefix(s, t) == Len(s) <= Len(t) /\ \A i \in 1..Len(s) : s[i] = t[i]
Ran(r, step) == \E i \in 1..Len(req[r].trace) : req[r].trace[i] = step
LastStep(r) == IF req[r].trace = <<>> THEN Nil ELSE req[r].trace[Len(req[r].trace)]

\* the permission table of the specification
TablePermission(kind) ==
    IF kind \in StatusKinds THEN "UPDATE_FLOW_STATUS" ELSE "WRITE_FLOW"

\* what the caller itself is allowed
CallerPermissions(principal) ==
    IF principal.type = "USER"
    THEN RolePermissions(memberRole[principal.id])
    ELSE RolePermissions(serviceRole)

\* the guard of slot r has been evaluated, on a version last updated by
\* somebody other than the acting user
GuardRanOnForeignEdit(r) ==
    /\ req[r].route = "UPDATE"
    /\ Ran(r, "assertThatFlowIsNotBeingUsed")
    /\ req[r].flow.updatedBy # Nil
    /\ req[r].flow.updatedBy # req[r].userId

Elapsed(r) == req[r].currentTime - req[r].flow.updated

\* C1: an update of a version last updated by another user fails with
\* FLOW_IN_USE when the guard runs at most 60 seconds after the version's
\* updated timestamp, and passes the guard when it runs more than 60 seconds
\* after it.
C1_SixtySecondWindow ==
    \A r \in SlotIds :
        GuardRanOnForeignEdit(r) =>
            /\ (Elapsed(r) <= 60 => req[r].status = "FLOW_IN_USE")
            /\ (Elapsed(r) > 60 => req[r].status # "FLOW_IN_USE")

\* C2: the authorization of a SERVICE principal's update is decided by the
\* role of the project's owner: it passes exactly when the owner's role has
\* the permission the operation kind requires.
C2_ServiceDecidedByOwnerRole ==
    \A r \in SlotIds :
        (/\ req[r].route = "UPDATE"
         /\ req[r].principal.type = "SERVICE"
         /\ req[r].opType \in TableKinds
         /\ Ran(r, "assertUserHasPermissionToFlow"))
        => ((req[r].status # "AUTHORIZATION")
            <=> (TablePermission(req[r].opType)
                 \in RolePermissions(memberRole[ProjectOwnerId(req[r].principal.projectId)])))

\* C3: for an operation kind outside the permission table,
\* assertUserHasPermissionToFlow does not return without a permission
\* having been checked.
C3_UnlistedKindNotSilentlyAllowed ==
    \A r \in SlotIds :
        (/\ req[r].route = "UPDATE"
         /\ req[r].opType \notin TableKinds
         /\ Ran(r, "assertUserHasPermissionToFlow")
         /\ req[r].status # "AUTHORIZATION")
        => Len(req[r].asserted) > 0

\* C4: every update asserts exactly one permission, the one the table gives
\* for its operation kind, and the operation of a caller lacking that
\* permission is never applied.
C4_PermissionTable ==
    \A r \in SlotIds :
        (req[r].route = "UPDATE" /\ Ran(r, "assertUserHasPermissionToFlow"))
        => /\ req[r].asserted = <<TablePermission(req[r].opType)>>
           /\ (TablePermission(req[r].opType) \notin CallerPermissions(req[r].principal)
               => /\ req[r].status = "AUTHORIZATION"
                  /\ ~Ran(r, "update")
                  /\ req[r].updatedFlow = NoFlow)

\* C4 witness: a status change asked by a user whose role lacks
\* UPDATE_FLOW_STATUS has been refused
C4_Witness ==
    \E r \in SlotIds :
        /\ req[r].opType \in StatusKinds
        /\ req[r].principal.type = "USER"
        /\ "WRITE_FLOW" \in CallerPermissions(req[r].principal)
        /\ req[r].status = "AUTHORIZATION"

\* the request of slot r failed before the event was due
FailedBeforeEvent(r) ==
    \/ req[r].status \in {"AUTHORIZATION", "FLOW_IN_USE"}
    \/ req[r].status = "ENTITY_NOT_FOUND" /\ LastStep(r) = "getOnePopulatedOrThrow"

C5_Order ==
    \A r \in SlotIds :
        req[r].route = "UPDATE"
        => /\ IsPrefix(req[r].trace, UpdateOrder)
           /\ (req[r].event.action = "UPDATED_FLOW" <=> Ran(r, "send"))
           /\ (req[r].status = "OK" => req[r].trace = UpdateOrder)
           /\ (FailedBeforeEvent(r)
               => /\ req[r].event = NoEvent
                  /\ ~Ran(r, "update")
                  /\ req[r].updatedFlow = NoFlow)

\* the stored flow changes only in a step that calls flowService.update or
\* flowService.delete
C5_OnlyWritesChange ==
    storedFlow' # storedFlow
    => \E r \in SlotIds :
          /\ req'[r].trace = Append(req[r].trace, LastStep(r)')
          /\ LastStep(r)' \in {"update", "delete"}

\* C5: the steps of an update run in the order resolve user, authorize, load,
\* guard, emit UPDATED_FLOW, apply; the event is emitted only after
\* authorization and the guard passed and before the mutation; a request that
\* fails authorization, the lookup or the guard emits no event, never calls
\* flowService.update and leaves the stored flow as it was.
C5_UpdateStepOrder == [][C5_Order' /\ C5_OnlyWritesChange]_vars

\* C5 witness: one update ran all six steps while another was refused by the
\* guard
C5_Witness ==
    \E r, q \in SlotIds :
        /\ req[r].route = "UPDATE" /\ req[r].status = "OK"
        /\ req[r].trace = UpdateOrder
        /\ req[q].route = "UPDATE" /\ req[q].status = "FLOW_IN_USE"
        /\ req[q].event = NoEvent

\* C6: the guard is no mutual exclusion: a request that passed the guard has
\* its write applied whatever has been written to the flow since it was
\* loaded, so two users' writes to the same loaded version both land.
C6_WriteNotGuarded ==
    [][\A r \in SlotIds :
          (/\ req[r].route = "UPDATE"
           /\ req[r].pc = "update"
           /\ req'[r].pc = "done"
           /\ storedFlow.exists)
          => /\ req'[r].status = "OK"
             /\ storedFlow'.updated = now
             /\ (req[r].principal.type = "USER"
                 => storedFlow'.updatedBy = req[r].principal.id)
             /\ req'[r].updatedFlow = storedFlow']_vars

\* C6 witness: two different users loaded the same version, both passed the
\* guard and both writes were applied within a minute of each other
C6_Witness ==
    \E r, q \in SlotIds :
        /\ r # q
        /\ req[r].route = "UPDATE" /\ req[q].route = "UPDATE"
        /\ req[r].principal.type = "USER" /\ req[q].principal.type = "USER"
        /\ req[r].userId # req[q].userId
        /\ req[r].flow = req[q].flow
        /\ req[r].status = "OK" /\ req[q].status = "OK"
        /\ req[r].updatedFlow.updated > req[r].flow.updated
        /\ req[q].updatedFlow.updated - req[r].updatedFlow.updated \in 0..60
        /\ req[r].updatedFlow.updatedBy = req[r].userId
        /\ req[q].updatedFlow.updatedBy = req[q].userId

C7_Order ==
    \A r \in SlotIds :
        req[r].route = "DELETE"
        => /\ IsPrefix(req[r].trace, DeleteOrder)
           /\ (req[r].event.action = "DELETED_FLOW" <=> Ran(r, "send"))
           /\ (req[r].status = "NO_CONTENT" <=> req[r].trace = DeleteOrder)
           /\ (LastStep(r) = "getOnePopulatedOrThrow" /\ req[r].pc = "done"
               => /\ req[r].status = "ENTITY_NOT_FOUND"
                  /\ req[r].event = NoEvent
                  /\ ~Ran(r, "delete"))

\* a flow disappears only in the delete step of a request that has already
\* emitted its DELETED_FLOW event
C7_DeletionAnnounced ==
    (storedFlow.exists /\ ~storedFlow'.exists)
    => \E r \in SlotIds :
          /\ req[r].route = "DELETE"
          /\ req[r].pc = "delete"
          /\ req[r].event.action = "DELETED_FLOW"
          /\ req'[r].pc = "reply"

\* C7: a delete loads the flow, then emits DELETED_FLOW, then deletes, then
\* replies 204; a failed lookup emits no event and deletes nothing; the event
\* never follows the deletion it announces.
C7_DeleteStepOrder == [][C7_Order' /\ C7_DeletionAnnounced]_vars

\* C7 witness: one delete replied 204 and another found the flow gone
C7_Witness ==
    \E r, q \in SlotIds :
        /\ req[r].route = "DELETE" /\ req[r].status = "NO_CONTENT"
        /\ req[q].route = "DELETE" /\ req[q].status = "ENTITY_NOT_FOUND"
        /\ req[q].trace = <<"getOnePopulatedOrThrow">>
        /\ ~storedFlow.exists

\* C8: the saved colour and the record of onSave calls change only in a
\* confirm; a confirm calls onSave once with the in-progress colour, saves
\* that colour and closes the popover; picking, editing and dismissing leave
\* both alone.
C8_SavedOnlyOnConfirm ==
    [][/\ (savedColor' # savedColor \/ onSaveCalls' # onSaveCalls)
          => uiEvent' = "confirm"
       /\ (uiEvent' = "confirm")
          => /\ savedColor' = color
             /\ ~open'
             /\ color' = color
             /\ (onSave => onSaveCalls' = Append(onSaveCalls, color))
             /\ (~onSave => onSaveCalls' = onSaveCalls)]_vars

\* C8 witness: after one confirm, a colour was picked and the popover
\* dismissed: the saved colour is still the confirmed one
C8_Witness ==
    /\ uiEvent = "dismiss"
    /\ ~open
    /\ Len(onSaveCalls) = 1
    /\ savedColor = onSaveCalls[1]
    /\ color # savedColor
    /\ savedColor # "#FFFFFF"

\* C9: the guard never rejects an update of a version whose updatedBy is
\* absent or is the acting user, however recent the version; so the user
\* recorded as its last editor can update again at once.
C9_OwnEditNeverRejected ==
    \A r \in SlotIds :
        (req[r].route = "UPDATE" /\ Ran(r, "assertThatFlowIsNotBeingUsed"))
        => /\ (req[r].flow.updatedBy \in {Nil, req[r].userId}
               => req[r].status # "FLOW_IN_USE")
           /\ (req[r].principal.type = "USER"
               /\ req[r].flow.updatedBy = req[r].principal.id
               => req[r].status # "FLOW_IN_USE")

\* C9 witness: a user updated a version they had themselves written in the
\* same second
C9_Witness ==
    \E r \in SlotIds :
        /\ req[r].route = "UPDATE"
        /\ req[r].principal.type = "USER"
        /\ req[r].flow.updatedBy = req[r].principal.id
        /\ req[r].flow.updated > 0
        /\ req[r].currentTime = req[r].flow.updated
        /\ req[r].status = "OK"

\* C10: a USER principal's update uses the principal's id in the guard, the
\* event and the mutation; a SERVICE principal's update uses the project
\* owner's id in the guard, the service principal's id in the event and a null
\* user id in the mutation; so within the guard's window it is rejected when
\* the last editor is a user other than the owner and let through when the
\* last editor is the owner.
C10_IdentityPerStep ==
    \A r \in SlotIds :
        req[r].route = "UPDATE"
        => /\ (Ran(r, "extractUserIdFromPrincipal")
               => req[r].userId = IF req[r].principal.type = "USER"
                                  THEN req[r].principal.id
                                  ELSE ProjectOwner)
           /\ (Ran(r, "send") => req[r].event.userId = req[r].principal.id)
           /\ (Ran(r, "update")
               => req[r].updateUserId = IF req[r].principal.type = "USER"
                                         THEN req[r].principal.id
                                         ELSE Nil)
           /\ (/\ req[r].principal.type = "SERVICE"
               /\ Ran(r, "assertThatFlowIsNotBeingUsed")
               /\ DiffMinutes(req[r].currentTime, req[r].flow.updated) <= 1
               => /\ (req[r].flow.updatedBy \in Users \ {ProjectOwner}
                      => req[r].status = "FLOW_IN_USE")
                  /\ (req[r].flow.updatedBy = ProjectOwner
                      => req[r].status # "FLOW_IN_USE"))

\* C10 witness: a service principal's update was rejected because another
\* member than the owner had just edited the flow
C10_Witness ==
    \E r \in SlotIds :
        /\ req[r].principal.type = "SERVICE"
        /\ req[r].flow.updatedBy = "u2"
        /\ req[r].flow.updated > 0
        /\ req[r].status = "FLOW_IN_USE"

====
